---- MODULE Spec2Model ----
(***************************************************************************)
(* Model of src/jdk.jdwp.agent/share/native/libjdwp/classTrack.c: the      *)
(* JDWP agent's class tracker.  Prepared classes get their signature      *)
(* attached as a JVMTI tag; the ObjectFree callback reports the tag of a  *)
(* freed class object to the event handler.                               *)
(*                                                                         *)
(* The agent code runs on the thread "main" (classTrack_initialize) and   *)
(* on the VM threads that post ClassPrepare / ObjectFree events.  Every   *)
(* JVMTI call of the code is one step, so that the calls of different     *)
(* threads interleave.                                                     *)
(***************************************************************************)
EXTENDS Integers, Sequences, FiniteSets, TLC

\* ---------------------------------------------------------------- bounds
NumClasses == 2
NumCbThreads == 2

\* ------------------------------------------------------------- constants
NOT_TAGGED == 0
JVMTI_CLASS_STATUS_VERIFIED == 1
JVMTI_CLASS_STATUS_PREPARED == 2
JVMTI_CLASS_STATUS_ARRAY == 16

Classes == 1..NumClasses
CbThreads == 1..NumCbThreads
MainThread == 0
Threads == {MainThread} \cup CbThreads

\* The addresses the allocator hands out for signature strings; 0 is NULL.
\* Every allocation gets an address never used before; which one is
\* immaterial, and the k-th string allocated for class c is named 2(c-1)+k.
Pointers == 1..(2 * NumClasses)

Unallocated == [klass |-> 0, text |-> "", by |-> "none", released |-> 0, why |-> "none"]

\* ptr_to_jlong / jlong_to_ptr: a pointer widened to the 64-bit tag and back.
ptr_to_jlong(p) == p
jlong_to_ptr(j) == j

\* Bitwise and of two naturals, as the C operator & computes it.
RECURSIVE BitAnd(_, _)
BitAnd(a, b) ==
    IF a = 0 \/ b = 0 THEN 0
    ELSE (IF a % 2 = 1 /\ b % 2 = 1 THEN 1 ELSE 0) + 2 * BitAnd(a \div 2, b \div 2)

\* Bitwise or of two naturals, as the C operator | computes it.
RECURSIVE BitOr(_, _)
BitOr(a, b) ==
    IF a = 0 THEN b
    ELSE IF b = 0 THEN a
    ELSE (IF a % 2 = 1 \/ b % 2 = 1 THEN 1 ELSE 0) + 2 * BitOr(a \div 2, b \div 2)

\* strcmp with the sense of its result taken the wrong way round.
StrEq_Inverted(a, b) == a # b

\* strcmp(a, b) == 0
StrEq(a, b) == a = b

VARIABLES
    assertOn,      \* gdata->assertOn
    trackingEnv,   \* static jvmtiEnv* trackingEnv: "NULL" or "ENV"
    hasCaps,       \* can_generate_object_free_events granted to trackingEnv
    callbacks,     \* the jvmtiEventCallbacks registered, and on which env
    enabled,       \* events enabled on trackingEnv
    objState,      \* class object: "absent", "live" or "freed"
    status,        \* JVMTI class status bits of each class
    tag,           \* the Tag Slot of each class object in trackingEnv
    pendingFree,   \* tags of the ObjectFree events the VM has still to post
    pc,            \* position of each thread
    klass,         \* argument klass of the thread's addPreparedClass
    signature,     \* local char* signature of the thread's addPreparedClass
    classes,       \* jclass *classes of classTrack_initialize
    i,             \* loop index of classTrack_initialize (0-based)
    allocs,        \* the heap of signature strings, by pointer
    consumer,      \* the calls of eventHandler_synthesizeUnloadEvent
    fatal,         \* EXIT_ERROR was reached: the process is gone
    assertFailed,  \* jdiAssertionFailed was reached
    hist,          \* history of the run, read by the properties only
    substrateSound \* the VM keeps the signature of a class object stable

vars == <<assertOn, trackingEnv, hasCaps, callbacks, enabled, objState, status,
          tag, pendingFree, pc, klass, signature, classes, i, allocs, consumer,
          fatal, assertFailed, hist, substrateSound>>

\* An array class has the ARRAY bit, from its creation on.
IsArrayClass(c) == BitAnd(status[c], JVMTI_CLASS_STATUS_ARRAY) # 0

\* The text classSignature computes for a class.  Classes 1 and 3 carry the
\* same name (two loaders define it), so equal text does not imply the same
\* class object.
SignatureText(c) ==
    IF IsArrayClass(c)
    THEN (IF c % 2 = 1 THEN "[LA;" ELSE "[LB;")
    ELSE (IF c % 2 = 1 THEN "LA;" ELSE "LB;")

\* getEnv(): the JNIEnv of the calling thread.
getEnv(t) == t

\* Line 170 with a slip: & in place of |.
wanted_And == BitAnd(JVMTI_CLASS_STATUS_PREPARED, JVMTI_CLASS_STATUS_ARRAY)

\* Line 170: the status bits classTrack_initialize looks for.
wanted == BitOr(JVMTI_CLASS_STATUS_PREPARED, JVMTI_CLASS_STATUS_ARRAY)

\* The state before classTrack_initialize is called.
Start ==
    /\ assertOn \in BOOLEAN
    /\ trackingEnv = "NULL"
    /\ hasCaps = FALSE
    /\ callbacks = [env |-> "NULL", events |-> {}]
    /\ enabled = {}
    /\ objState = [c \in Classes |-> "absent"]
    /\ status = [c \in Classes |-> 0]
    /\ tag = [c \in Classes |-> NOT_TAGGED]
    /\ pendingFree = {}
    /\ pc = [t \in Threads |-> IF t = MainThread THEN "getSpecialJvmti" ELSE "idle"]
    /\ klass = [t \in Threads |-> 0]
    /\ signature = [t \in Threads |-> 0]
    /\ classes = <<>>
    /\ i = 0
    /\ allocs = [p \in Pointers |-> Unallocated]
    /\ consumer = <<>>
    /\ fatal = FALSE
    /\ assertFailed = FALSE
    /\ hist = [failed    |-> {},
               setCount  |-> [c \in Classes |-> 0],
               getCalls  |-> 0,
               setCalls  |-> 0,
               calls     |-> [c \in Classes |-> [boot |-> 0, prepare |-> 0]],
               seenStatus |-> [c \in Classes |-> 0],
               attached  |-> [p \in Pointers |-> {}],
               evFired   |-> {},
               freedTags |-> [c \in Classes |-> NOT_TAGGED],
               returned  |-> FALSE]

\* The VM keeps its guarantees: a class object never changes its signature.
Init == Start /\ substrateSound = TRUE

\* The same agent on a VM that breaks that guarantee: a class object is
\* given another name after its first classSignature.  This is the
\* logic-invariant violation the assertion of line 95 is there to detect.
InitBrokenSubstrate == Start /\ substrateSound = FALSE

\* ------------------------------------------------------------ the VM side
\* What the VM does around the agent: it loads, prepares and frees classes
\* and posts the events enabled on trackingEnv (JVMTI specification).

Range(s) == {s[k] : k \in 1..Len(s)}

\* An event is posted when it is enabled and its callback is registered.
Posts(ev) == ev \in enabled /\ ev \in callbacks.events

\* A class object is referenced by a thread working on it, and by the
\* local references in the array allLoadedClasses returned, until
\* classTrack_initialize returns.
Referenced(c) ==
    \/ \E t \in Threads : pc[t] # "idle" /\ klass[t] = c
    \/ pc[MainThread] # "done" /\ c \in Range(classes)

\* The VM loads class c; an array class is created with status ARRAY.
VMLoadClass(c, isArray) ==
    /\ ~fatal
    /\ objState[c] = "absent"
    /\ objState' = [objState EXCEPT ![c] = "live"]
    /\ status' = [status EXCEPT ![c] =
                    IF isArray THEN JVMTI_CLASS_STATUS_ARRAY ELSE 0]
    /\ UNCHANGED <<assertOn, substrateSound, trackingEnv, hasCaps, callbacks, enabled, tag,
                   pendingFree, pc, klass, signature, classes, i, allocs,
                   consumer, fatal, assertFailed, hist>>

\* The VM threads are interchangeable: an event is posted on the first
\* thread that is not inside a callback.
FirstIdle(t) ==
    /\ t \in CbThreads
    /\ pc[t] = "idle"
    /\ \A u \in CbThreads : u < t => pc[u] # "idle"

\* Thread t links class c: the status gets the PREPARED bit, and then the
\* ClassPrepare event, if posted, runs the callback on t.  No ClassPrepare
\* event exists for array classes.
VMPrepareClass(c, t) ==
    /\ ~fatal
    /\ FirstIdle(t)
    /\ objState[c] = "live"
    /\ ~IsArrayClass(c)
    /\ BitAnd(status[c], JVMTI_CLASS_STATUS_PREPARED) = 0
    /\ status' = [status EXCEPT ![c] =
                    BitOr(JVMTI_CLASS_STATUS_VERIFIED, JVMTI_CLASS_STATUS_PREPARED)]
    /\ IF Posts("ClassPrepare")
       THEN /\ pc' = [pc EXCEPT ![t] = "cbTrackingClassPrepare"]
            /\ klass' = [klass EXCEPT ![t] = c]
            /\ hist' = [hist EXCEPT !.evFired = @ \cup {c}]
       ELSE UNCHANGED <<pc, klass, hist>>
    /\ UNCHANGED <<assertOn, substrateSound, trackingEnv, hasCaps, callbacks, enabled, objState,
                   tag, pendingFree, signature, classes, i, allocs, consumer,
                   fatal, assertFailed>>

\* The VM frees the unreferenced class object c.  Its Tag Slot goes with
\* it; for a tagged object an ObjectFree event carrying the tag is due.
VMFreeObject(c) ==
    /\ ~fatal
    /\ objState[c] = "live"
    /\ ~Referenced(c)
    /\ objState' = [objState EXCEPT ![c] = "freed"]
    /\ tag' = [tag EXCEPT ![c] = NOT_TAGGED]
    /\ pendingFree' = IF tag[c] # NOT_TAGGED /\ Posts("ObjectFree")
                      THEN pendingFree \cup {tag[c]} ELSE pendingFree
    /\ hist' = [hist EXCEPT !.freedTags[c] = tag[c]]
    /\ UNCHANGED <<assertOn, substrateSound, trackingEnv, hasCaps, callbacks, enabled, status,
                   pc, klass, signature, classes, i, allocs, consumer, fatal,
                   assertFailed>>
\* --------------------------------------------------------- the agent code

\* jvmtiDeallocate(p) on a string of allocs; why names the calling path.
jvmtiDeallocate(a, p, why) ==
    [a EXCEPT ![p].released = @ + 1, ![p].why = why]

\* Which path of the code the thread's addPreparedClass was called from.
Origin(t) == IF t = MainThread THEN "boot" ELSE "prepare"

\* Where addPreparedClass returns to: the loop of classTrack_initialize, or
\* out of the callback.
ReturnPc(t) == IF t = MainThread THEN "loop" ELSE "idle"

\* cbTrackingObjectFree: what is handed to the event handler for a tag.
ReportedSignature(tg) == jlong_to_ptr(tg)

\* cbTrackingObjectFree with a slip: the handler releases the string after
\* handing it over.
cbTrackingObjectFree_Releases(t, tg) ==
    /\ ~fatal
    /\ FirstIdle(t)
    /\ tg \in pendingFree
    /\ pendingFree' = pendingFree \ {tg}
    /\ assertFailed' = (assertFailed \/ (assertOn /\ callbacks.env # trackingEnv))
    /\ consumer' = Append(consumer,
                          [signature |-> ReportedSignature(tg),
                           text      |-> allocs[ReportedSignature(tg)].text,
                           env       |-> getEnv(t)])
    /\ allocs' = jvmtiDeallocate(allocs, ReportedSignature(tg), "ObjectFree")
    /\ UNCHANGED <<assertOn, substrateSound, trackingEnv, hasCaps, callbacks, enabled, objState,
                   status, tag, pc, klass, signature, classes, i, fatal, hist>>

\* cbTrackingObjectFree(jvmti_env, tag), posted by the VM on thread t.
cbTrackingObjectFree(t, tg) ==
    /\ ~fatal
    /\ FirstIdle(t)
    /\ tg \in pendingFree
    /\ pendingFree' = pendingFree \ {tg}
    /\ assertFailed' = (assertFailed \/ (assertOn /\ callbacks.env # trackingEnv))
    /\ consumer' = Append(consumer,
                          [signature |-> ReportedSignature(tg),
                           text      |-> allocs[ReportedSignature(tg)].text,
                           env       |-> getEnv(t)])
    /\ UNCHANGED <<assertOn, substrateSound, trackingEnv, hasCaps, callbacks, enabled, objState,
                   status, tag, pc, klass, signature, classes, i, allocs,
                   fatal, hist>>

\* jvmtiAllocate inside classSignature: a fresh address for a string of
\* class c.
Allocate(c) ==
    CHOOSE p \in {2 * c - 1, 2 * c} :
        /\ allocs[p] = Unallocated
        /\ \A q \in {2 * c - 1, 2 * c} : allocs[q] = Unallocated => p <= q

\* The text classSignature returns for class c: its signature; on a VM that
\* reuses a class object for another class, the second string computed for c
\* carries the other class's name.
classSignature(c) ==
    IF substrateSound \/ Allocate(c) = 2 * c - 1
    THEN SignatureText(c)
    ELSE "LX;"

\* Lines 79-83 with a slip: the error of classSignature is recorded but the
\* call returns instead of exiting.
addPreparedClass_classSignature_NoExit(t, c, ok, h) ==
    /\ klass' = [klass EXCEPT ![t] = c]
    /\ fatal' = fatal
    /\ IF ok
       THEN LET p == Allocate(c)
            IN  /\ allocs' = [allocs EXCEPT ![p] = [klass    |-> c,
                                                    text     |-> classSignature(c),
                                                    by       |-> Origin(t),
                                                    released |-> 0,
                                                    why      |-> "none"]]
                /\ signature' = [signature EXCEPT ![t] = p]
                /\ pc' = [pc EXCEPT ![t] = IF assertOn THEN "GetTag" ELSE "SetTag"]
                /\ hist' = h
       ELSE /\ hist' = [h EXCEPT !.failed = @ \cup {"classSignature"}]
            /\ UNCHANGED <<allocs, signature, pc>>

\* addPreparedClass(env, c) entered on thread t, lines 79-85: classSignature
\* allocates the signature of klass, or fails and the process exits.  The
\* call and classSignature touch nothing another thread sees, so they are
\* part of the caller's step; h is hist as the caller leaves it.
addPreparedClass_classSignature(t, c, ok, h) ==
    /\ klass' = [klass EXCEPT ![t] = c]
    /\ IF ok
       THEN LET p == Allocate(c)
            IN  /\ allocs' = [allocs EXCEPT ![p] = [klass    |-> c,
                                                    text     |-> classSignature(c),
                                                    by       |-> Origin(t),
                                                    released |-> 0,
                                                    why      |-> "none"]]
                /\ signature' = [signature EXCEPT ![t] = p]
                /\ pc' = [pc EXCEPT ![t] = IF assertOn THEN "GetTag" ELSE "SetTag"]
                /\ fatal' = fatal
                /\ hist' = h
       ELSE /\ fatal' = TRUE
            /\ hist' = [h EXCEPT !.failed = @ \cup {"classSignature"}]
            /\ UNCHANGED <<allocs, signature, pc>>

\* cbTrackingClassPrepare(jvmti_env, env, thread, klass) on thread t: the
\* assertion, then the call of addPreparedClass.
cbTrackingClassPrepare(t, ok) ==
    /\ ~fatal
    /\ pc[t] = "cbTrackingClassPrepare"
    /\ assertFailed' = (assertFailed \/ (assertOn /\ callbacks.env # trackingEnv))
    /\ addPreparedClass_classSignature(t, klass[t], ok,
          [hist EXCEPT !.calls[klass[t]].prepare = @ + 1])
    /\ UNCHANGED <<assertOn, substrateSound, trackingEnv, hasCaps, callbacks, enabled, objState,
                   status, tag, pendingFree, classes, i, consumer>>

\* Line 96 with a slip: the already-tagged path releases the stored string.
DuplicateReleased_Old(sig, oldSignature) == oldSignature

\* Line 96: the string the already-tagged path releases.
DuplicateReleased(sig, oldSignature) == sig

\* Lines 92-98 with a slip: lines 96-97 stand after the closing brace of
\* if (tag != NOT_TAGGED), so with assertOn every call releases its string
\* and returns before SetTag.
addPreparedClass_GetTag_AlwaysReturns(t, ok) ==
    /\ ~fatal
    /\ pc[t] = "GetTag"
    /\ IF ~ok
       THEN /\ fatal' = TRUE
            /\ hist' = [hist EXCEPT !.failed = @ \cup {"GetTag"},
                                    !.getCalls = @ + 1]
            /\ UNCHANGED <<allocs, signature, pc, klass, i>>
       ELSE /\ hist' = [hist EXCEPT !.getCalls = @ + 1]
            /\ fatal' = fatal
            /\ allocs' = jvmtiDeallocate(allocs, signature[t], "duplicate")
            /\ pc' = [pc EXCEPT ![t] = ReturnPc(t)]
            /\ klass' = [klass EXCEPT ![t] = 0]
            /\ signature' = [signature EXCEPT ![t] = 0]
            /\ i' = IF t = MainThread THEN i + 1 ELSE i
    /\ UNCHANGED <<assertOn, substrateSound, trackingEnv, hasCaps, callbacks,
                   enabled, objState, status, tag, pendingFree, classes,
                   consumer, assertFailed>>

\* Lines 85-99 with a slip: the return of line 97 is missing, so the
\* already-tagged path goes on to SetTag with the string it has released.
addPreparedClass_GetTag_NoReturn(t, ok) ==
    /\ ~fatal
    /\ pc[t] = "GetTag"
    /\ IF ~ok
       THEN /\ fatal' = TRUE
            /\ hist' = [hist EXCEPT !.failed = @ \cup {"GetTag"},
                                    !.getCalls = @ + 1]
            /\ UNCHANGED <<allocs, assertFailed>>
       ELSE /\ hist' = [hist EXCEPT !.getCalls = @ + 1]
            /\ fatal' = fatal
            /\ IF tag[klass[t]] # NOT_TAGGED
               THEN LET oldSignature == jlong_to_ptr(tag[klass[t]])
                    IN  /\ assertFailed' =
                             (assertFailed \/
                              ~StrEq(allocs[signature[t]].text,
                                     allocs[oldSignature].text))
                        /\ allocs' = jvmtiDeallocate(allocs, signature[t], "duplicate")
               ELSE UNCHANGED <<allocs, assertFailed>>
    /\ pc' = IF ok THEN [pc EXCEPT ![t] = "SetTag"] ELSE pc
    /\ UNCHANGED <<assertOn, substrateSound, trackingEnv, hasCaps, callbacks, enabled, objState,
                   status, tag, pendingFree, classes, consumer, signature,
                   klass, i>>

\* addPreparedClass, lines 85-99: with assertOn, GetTag; an already tagged
\* klass has its old signature compared, the new one released, and the
\* function returns.
addPreparedClass_GetTag(t, ok) ==
    /\ ~fatal
    /\ pc[t] = "GetTag"
    /\ IF ~ok
       THEN /\ fatal' = TRUE
            /\ hist' = [hist EXCEPT !.failed = @ \cup {"GetTag"},
                                    !.getCalls = @ + 1]
            /\ UNCHANGED <<allocs, signature, pc, klass, i, assertFailed>>
       ELSE /\ hist' = [hist EXCEPT !.getCalls = @ + 1]
            /\ fatal' = fatal
            /\ IF tag[klass[t]] # NOT_TAGGED
               THEN LET oldSignature == jlong_to_ptr(tag[klass[t]])
                    IN  /\ assertFailed' =
                             (assertFailed \/
                              ~StrEq(allocs[signature[t]].text,
                                     allocs[oldSignature].text))
                        /\ allocs' = jvmtiDeallocate(allocs,
                                        DuplicateReleased(signature[t], oldSignature),
                                        "duplicate")
                        /\ pc' = [pc EXCEPT ![t] = ReturnPc(t)]
                        /\ klass' = [klass EXCEPT ![t] = 0]
                        /\ signature' = [signature EXCEPT ![t] = 0]
                        /\ i' = IF t = MainThread THEN i + 1 ELSE i
               ELSE /\ pc' = [pc EXCEPT ![t] = "SetTag"]
                    /\ UNCHANGED <<allocs, signature, klass, i, assertFailed>>
    /\ UNCHANGED <<assertOn, substrateSound, trackingEnv, hasCaps, callbacks, enabled, objState,
                   status, tag, pendingFree, classes, consumer>>

\* Lines 101-105 with a slip: the error path exits without releasing the
\* signature.
addPreparedClass_SetTag_NoRelease(t, ok) ==
    /\ ~fatal
    /\ pc[t] = "SetTag"
    /\ IF ok
       THEN /\ tag' = [tag EXCEPT ![klass[t]] = ptr_to_jlong(signature[t])]
            /\ hist' = [hist EXCEPT !.setCalls = @ + 1,
                                    !.setCount[klass[t]] = @ + 1,
                                    !.attached[signature[t]] = @ \cup {klass[t]}]
            /\ pc' = [pc EXCEPT ![t] = ReturnPc(t)]
            /\ klass' = [klass EXCEPT ![t] = 0]
            /\ signature' = [signature EXCEPT ![t] = 0]
            /\ i' = IF t = MainThread THEN i + 1 ELSE i
            /\ fatal' = fatal
       ELSE /\ fatal' = TRUE
            /\ hist' = [hist EXCEPT !.setCalls = @ + 1,
                                    !.failed = @ \cup {"SetTag"}]
            /\ UNCHANGED <<tag, pc, klass, signature, i>>
    /\ UNCHANGED <<assertOn, substrateSound, trackingEnv, hasCaps, callbacks,
                   enabled, objState, status, pendingFree, classes, consumer,
                   assertFailed, allocs>>

\* Lines 76 and 101 with a slip: signature is a static variable, so SetTag
\* stores the string of whichever call wrote it last.
addPreparedClass_SetTag_StaticSignature(t, ok) ==
    /\ ~fatal
    /\ pc[t] = "SetTag"
    /\ IF ok
       THEN /\ \E u \in Threads :
                  /\ signature[u] # 0
                  /\ tag' = [tag EXCEPT ![klass[t]] = ptr_to_jlong(signature[u])]
                  /\ hist' = [hist EXCEPT !.setCalls = @ + 1,
                                          !.setCount[klass[t]] = @ + 1,
                                          !.attached[signature[u]] = @ \cup {klass[t]}]
            /\ pc' = [pc EXCEPT ![t] = ReturnPc(t)]
            /\ klass' = [klass EXCEPT ![t] = 0]
            /\ signature' = [signature EXCEPT ![t] = 0]
            /\ i' = IF t = MainThread THEN i + 1 ELSE i
            /\ UNCHANGED <<allocs, fatal>>
       ELSE /\ allocs' = jvmtiDeallocate(allocs, signature[t], "SetTag")
            /\ fatal' = TRUE
            /\ hist' = [hist EXCEPT !.setCalls = @ + 1,
                                    !.failed = @ \cup {"SetTag"}]
            /\ UNCHANGED <<tag, pc, klass, signature, i>>
    /\ UNCHANGED <<assertOn, substrateSound, trackingEnv, hasCaps, callbacks,
                   enabled, objState, status, pendingFree, classes, consumer,
                   assertFailed>>

\* addPreparedClass, lines 101-105: SetTag stores the signature in the Tag
\* Slot of klass; on failure the signature is released and the process exits.
addPreparedClass_SetTag(t, ok) ==
    /\ ~fatal
    /\ pc[t] = "SetTag"
    /\ IF ok
       THEN /\ tag' = [tag EXCEPT ![klass[t]] = ptr_to_jlong(signature[t])]
            /\ hist' = [hist EXCEPT !.setCalls = @ + 1,
                                    !.setCount[klass[t]] = @ + 1,
                                    !.attached[signature[t]] = @ \cup {klass[t]}]
            /\ pc' = [pc EXCEPT ![t] = ReturnPc(t)]
            /\ klass' = [klass EXCEPT ![t] = 0]
            /\ signature' = [signature EXCEPT ![t] = 0]
            /\ i' = IF t = MainThread THEN i + 1 ELSE i
            /\ UNCHANGED <<allocs, fatal>>
       ELSE /\ allocs' = jvmtiDeallocate(allocs, signature[t], "SetTag")
            /\ fatal' = TRUE
            /\ hist' = [hist EXCEPT !.setCalls = @ + 1,
                                    !.failed = @ \cup {"SetTag"}]
            /\ UNCHANGED <<tag, pc, klass, signature, i>>
    /\ UNCHANGED <<assertOn, substrateSound, trackingEnv, hasCaps, callbacks, enabled, objState,
                   status, pendingFree, classes, consumer, assertFailed>>
\* EXIT_ERROR on the thread running classTrack_initialize.
ExitError(step) ==
    /\ fatal' = TRUE
    /\ hist' = [hist EXCEPT !.failed = @ \cup {step}]

\* Lines 150-153 with a slip: the NULL check is missing, so setupEvents runs
\* with trackingEnv unset.
classTrack_initialize_getSpecialJvmti_Unchecked(env) ==
    /\ ~fatal
    /\ pc[MainThread] = "getSpecialJvmti"
    /\ trackingEnv' = env
    /\ pc' = [pc EXCEPT ![MainThread] = "AddCapabilities"]
    /\ UNCHANGED <<assertOn, substrateSound, hasCaps, callbacks, enabled,
                   objState, status, tag, pendingFree, klass, signature,
                   classes, i, allocs, consumer, assertFailed, fatal, hist>>

\* classTrack_initialize, lines 150-153: getSpecialJvmti, NULL is fatal.
classTrack_initialize_getSpecialJvmti(env) ==
    /\ ~fatal
    /\ pc[MainThread] = "getSpecialJvmti"
    /\ trackingEnv' = env
    /\ IF env = "NULL"
       THEN ExitError("getSpecialJvmti") /\ pc' = pc
       ELSE pc' = [pc EXCEPT ![MainThread] = "AddCapabilities"]
            /\ UNCHANGED <<fatal, hist>>
    /\ UNCHANGED <<assertOn, substrateSound, hasCaps, callbacks, enabled, objState, status, tag,
                   pendingFree, klass, signature, classes, i, allocs, consumer,
                   assertFailed>>

\* setupEvents, lines 111-117: AddCapabilities.  A failure returns JNI_FALSE,
\* which line 156 turns into EXIT_ERROR.
setupEvents_AddCapabilities(ok) ==
    /\ ~fatal
    /\ pc[MainThread] = "AddCapabilities"
    /\ IF ok
       THEN /\ hasCaps' = TRUE
            /\ pc' = [pc EXCEPT ![MainThread] = "SetEventCallbacks"]
            /\ UNCHANGED <<fatal, hist>>
       ELSE ExitError("AddCapabilities") /\ UNCHANGED <<hasCaps, pc>>
    /\ UNCHANGED <<assertOn, substrateSound, trackingEnv, callbacks, enabled, objState, status,
                   tag, pendingFree, klass, signature, classes, i, allocs,
                   consumer, assertFailed>>

\* setupEvents, lines 118-127: SetEventCallbacks with ObjectFree and
\* ClassPrepare on trackingEnv.
setupEvents_SetEventCallbacks(ok) ==
    /\ ~fatal
    /\ pc[MainThread] = "SetEventCallbacks"
    /\ IF ok
       THEN /\ callbacks' = [env |-> trackingEnv,
                             events |-> {"ObjectFree", "ClassPrepare"}]
            /\ pc' = [pc EXCEPT ![MainThread] = "EnableObjectFree"]
            /\ UNCHANGED <<fatal, hist>>
       ELSE ExitError("SetEventCallbacks") /\ UNCHANGED <<callbacks, pc>>
    /\ UNCHANGED <<assertOn, substrateSound, trackingEnv, hasCaps, enabled, objState, status,
                   tag, pendingFree, klass, signature, classes, i, allocs,
                   consumer, assertFailed>>

\* setupEvents, lines 129-133 with a slip: the first SetEventNotificationMode
\* names CLASS_PREPARE, so OBJECT_FREE is never enabled.
setupEvents_EnableObjectFree_WrongEvent(ok) ==
    /\ ~fatal
    /\ pc[MainThread] = "EnableObjectFree"
    /\ IF ok
       THEN /\ enabled' = enabled \cup {"ClassPrepare"}
            /\ pc' = [pc EXCEPT ![MainThread] = "EnableClassPrepare"]
            /\ UNCHANGED <<fatal, hist>>
       ELSE ExitError("EnableObjectFree") /\ UNCHANGED <<enabled, pc>>
    /\ UNCHANGED <<assertOn, substrateSound, trackingEnv, hasCaps, callbacks, objState, status,
                   tag, pendingFree, klass, signature, classes, i, allocs,
                   consumer, assertFailed>>

\* setupEvents, lines 129-133: enable OBJECT_FREE events.
setupEvents_EnableObjectFree(ok) ==
    /\ ~fatal
    /\ pc[MainThread] = "EnableObjectFree"
    /\ IF ok
       THEN /\ enabled' = enabled \cup {"ObjectFree"}
            /\ pc' = [pc EXCEPT ![MainThread] = "EnableClassPrepare"]
            /\ UNCHANGED <<fatal, hist>>
       ELSE ExitError("EnableObjectFree") /\ UNCHANGED <<enabled, pc>>
    /\ UNCHANGED <<assertOn, substrateSound, trackingEnv, hasCaps, callbacks, objState, status,
                   tag, pendingFree, klass, signature, classes, i, allocs,
                   consumer, assertFailed>>

\* Lines 135-141 with a slip: setupEvents returns JNI_TRUE without having
\* enabled CLASS_PREPARE events.
setupEvents_EnableClassPrepare_NotEnabled(ok) ==
    /\ ~fatal
    /\ pc[MainThread] = "EnableClassPrepare"
    /\ IF ok
       THEN /\ pc' = [pc EXCEPT ![MainThread] = "allLoadedClasses"]
            /\ UNCHANGED <<enabled, fatal, hist>>
       ELSE ExitError("EnableClassPrepare") /\ UNCHANGED <<enabled, pc>>
    /\ UNCHANGED <<assertOn, substrateSound, trackingEnv, hasCaps, callbacks,
                   objState, status, tag, pendingFree, klass, signature,
                   classes, i, allocs, consumer, assertFailed>>

\* setupEvents, lines 135-141 with a slip: the error of the last
\* SetEventNotificationMode is not tested, JNI_TRUE is returned either way.
setupEvents_EnableClassPrepare_Unchecked(ok) ==
    /\ ~fatal
    /\ pc[MainThread] = "EnableClassPrepare"
    /\ enabled' = IF ok THEN enabled \cup {"ClassPrepare"} ELSE enabled
    /\ hist' = IF ok THEN hist
               ELSE [hist EXCEPT !.failed = @ \cup {"EnableClassPrepare"}]
    /\ pc' = [pc EXCEPT ![MainThread] = "allLoadedClasses"]
    /\ UNCHANGED <<assertOn, substrateSound, trackingEnv, hasCaps, callbacks, objState, status,
                   tag, pendingFree, klass, signature, classes, i, allocs,
                   consumer, assertFailed, fatal>>

\* setupEvents, lines 135-141: enable CLASS_PREPARE events, return JNI_TRUE.
setupEvents_EnableClassPrepare(ok) ==
    /\ ~fatal
    /\ pc[MainThread] = "EnableClassPrepare"
    /\ IF ok
       THEN /\ enabled' = enabled \cup {"ClassPrepare"}
            /\ pc' = [pc EXCEPT ![MainThread] = "allLoadedClasses"]
            /\ UNCHANGED <<fatal, hist>>
       ELSE ExitError("EnableClassPrepare") /\ UNCHANGED <<enabled, pc>>
    /\ UNCHANGED <<assertOn, substrateSound, trackingEnv, hasCaps, callbacks, objState, status,
                   tag, pendingFree, klass, signature, classes, i, allocs,
                   consumer, assertFailed>>

\* The elements of a set of classes in ascending order.
RECURSIVE AscSeq(_)
AscSeq(S) ==
    IF S = {} THEN <<>>
    ELSE LET m == CHOOSE x \in S : \A y \in S : x <= y
         IN  <<m>> \o AscSeq(S \ {m})

\* classTrack_initialize, lines 165-166, 177-179: allLoadedClasses returns
\* the loaded classes, prepared or not; an error is fatal.
classTrack_initialize_allLoadedClasses(ok) ==
    /\ ~fatal
    /\ pc[MainThread] = "allLoadedClasses"
    /\ IF ok
       THEN /\ classes' = AscSeq({c \in Classes : objState[c] = "live"})
            /\ i' = 0
            /\ pc' = [pc EXCEPT ![MainThread] = "loop"]
            /\ UNCHANGED <<fatal, hist>>
       ELSE ExitError("allLoadedClasses") /\ UNCHANGED <<classes, i, pc>>
    /\ UNCHANGED <<assertOn, substrateSound, trackingEnv, hasCaps, callbacks, enabled, objState,
                   status, tag, pendingFree, klass, signature, allocs, consumer,
                   assertFailed>>

\* classStatus(klass): the JVMTI status bits of the class.
classStatus(c) == status[c]

\* Line 172 with a slip: only the PREPARED bit is tested.
IsWanted_PreparedOnly(st) == BitAnd(st, JVMTI_CLASS_STATUS_PREPARED) # 0

\* Line 172 with a slip: the status is not tested.
IsWanted_Always(st) == TRUE

\* Line 172: the class is prepared or an array class.
IsWanted(st) == BitAnd(st, wanted) # 0

\* classTrack_initialize, lines 167-176: one round of the loop over classes:
\* a class with a wanted status goes to addPreparedClass (ok is the outcome
\* of its classSignature); at the end the array is released and the function
\* returns.
classTrack_initialize_loop(ok) ==
    /\ ~fatal
    /\ pc[MainThread] = "loop"
    /\ IF i < Len(classes)
       THEN LET c == classes[i + 1]
                st == classStatus(c)
            IN  IF IsWanted(st)
                THEN /\ addPreparedClass_classSignature(MainThread, c, ok,
                            [hist EXCEPT !.calls[c].boot = @ + 1,
                                         !.seenStatus[c] = st])
                     /\ i' = i
                ELSE /\ ok
                     /\ i' = i + 1
                     /\ hist' = [hist EXCEPT !.seenStatus[c] = st]
                     /\ UNCHANGED <<klass, pc, allocs, signature, fatal>>
       ELSE /\ ok
            /\ pc' = [pc EXCEPT ![MainThread] = "done"]
            /\ hist' = [hist EXCEPT !.returned = TRUE]
            /\ UNCHANGED <<klass, i, allocs, signature, fatal>>
    /\ UNCHANGED <<assertOn, substrateSound, trackingEnv, hasCaps, callbacks, enabled, objState,
                   status, tag, pendingFree, classes, consumer, assertFailed>>

\* ------------------------------------------------------ the specification
Next ==
    \/ \E c \in Classes, isArray \in BOOLEAN : VMLoadClass(c, isArray)
    \/ \E c \in Classes, t \in CbThreads : VMPrepareClass(c, t)
    \/ \E c \in Classes : VMFreeObject(c)
    \/ \E t \in CbThreads, tg \in pendingFree : cbTrackingObjectFree(t, tg)
    \/ \E t \in CbThreads, ok \in BOOLEAN : cbTrackingClassPrepare(t, ok)
    \/ \E t \in Threads, ok \in BOOLEAN : addPreparedClass_GetTag(t, ok)
    \/ \E t \in Threads, ok \in BOOLEAN : addPreparedClass_SetTag(t, ok)
    \/ \E env \in {"NULL", "ENV"} : classTrack_initialize_getSpecialJvmti(env)
    \/ \E ok \in BOOLEAN : setupEvents_AddCapabilities(ok)
    \/ \E ok \in BOOLEAN : setupEvents_SetEventCallbacks(ok)
    \/ \E ok \in BOOLEAN : setupEvents_EnableObjectFree(ok)
    \/ \E ok \in BOOLEAN : setupEvents_EnableClassPrepare(ok)
    \/ \E ok \in BOOLEAN : classTrack_initialize_allLoadedClasses(ok)
    \/ \E ok \in BOOLEAN : classTrack_initialize_loop(ok)

Spec == Init /\ [][Next]_vars

\* The agent on a VM that does not keep the signature of a class stable.
SpecBrokenSubstrate == InitBrokenSubstrate /\ [][Next]_vars

\* A step of the thread that runs classTrack_initialize.
MainStep ==
    \/ \E env \in {"NULL", "ENV"} : classTrack_initialize_getSpecialJvmti(env)
    \/ \E ok \in BOOLEAN : setupEvents_AddCapabilities(ok)
    \/ \E ok \in BOOLEAN : setupEvents_SetEventCallbacks(ok)
    \/ \E ok \in BOOLEAN : setupEvents_EnableObjectFree(ok)
    \/ \E ok \in BOOLEAN : setupEvents_EnableClassPrepare(ok)
    \/ \E ok \in BOOLEAN : classTrack_initialize_allLoadedClasses(ok)
    \/ \E ok \in BOOLEAN : classTrack_initialize_loop(ok)
    \/ \E ok \in BOOLEAN : addPreparedClass_GetTag(MainThread, ok)
    \/ \E ok \in BOOLEAN : addPreparedClass_SetTag(MainThread, ok)

\* A step of the ClassPrepare callback running on thread t.
CallbackStep(t) ==
    \E ok \in BOOLEAN :
       \/ cbTrackingClassPrepare(t, ok)
       \/ addPreparedClass_GetTag(t, ok)
       \/ addPreparedClass_SetTag(t, ok)

\* The threads run: classTrack_initialize and every callback the VM has
\* started take their next step, none of which blocks (the module takes no
\* lock).  When classes are loaded, prepared and freed is up to the VM.
FairSpec ==
    /\ Init
    /\ [][Next]_vars
    /\ WF_vars(MainStep)
    /\ \A t \in CbThreads : WF_vars(CallbackStep(t))
\* ------------------------------------------------------------- properties

\* Number of eventHandler_synthesizeUnloadEvent calls that got pointer p.
Forwards(p) == Cardinality({k \in 1..Len(consumer) : consumer[k].signature = p})

\* The strings classSignature has allocated so far.
Allocated == {p \in Pointers : allocs[p] # Unallocated}

\* No addPreparedClass is under way, no class object is tagged any more, and
\* every ObjectFree event has been posted.
AllDelivered ==
    /\ \A t \in Threads : pc[t] \in {"idle", "done"}
    /\ \A c \in Classes : tag[c] = NOT_TAGGED
    /\ pendingFree = {}

\* C1: in a run that did not exit, once the ObjectFree events of all tagged
\* class objects are delivered, every allocated signature was either released
\* once as a duplicate and never forwarded, or forwarded exactly once and
\* never released.
C1_NoLeakNoDoubleUse ==
    (~fatal /\ AllDelivered) =>
        \A p \in Allocated :
            \/ allocs[p].released = 1 /\ allocs[p].why = "duplicate" /\ Forwards(p) = 0
            \/ allocs[p].released = 0 /\ Forwards(p) = 1

\* C2: SetTag stores a signature in the Tag Slot of a class object at most
\* once in the object's lifetime.
C2_SingleTag == \A c \in Classes : hist.setCount[c] <= 1
\* The eventHandler_synthesizeUnloadEvent calls made for class object c: the
\* calls whose string was computed for c.
UnloadEvents(c) ==
    {k \in 1..Len(consumer) :
        /\ consumer[k].signature \in Pointers
        /\ allocs[consumer[k].signature].klass = c}

\* C3: a class object that was tagged, was freed and had its ObjectFree event
\* posted has exactly one unload event, whose argument is the tag the object
\* carried and reads as every signature the object was tagged with; a class
\* object that was not freed has no unload event, and no class has two.
C3_UnloadCorrect ==
    \A c \in Classes :
        /\ Cardinality(UnloadEvents(c)) <= 1
        /\ \A k \in 1..Len(consumer) : consumer[k].signature \in Pointers
        /\ UnloadEvents(c) # {} => objState[c] = "freed"
        /\ (/\ objState[c] = "freed"
            /\ hist.freedTags[c] # NOT_TAGGED
            /\ hist.freedTags[c] \notin pendingFree)
           => Cardinality(UnloadEvents(c)) = 1
        /\ \A k \in UnloadEvents(c) :
              /\ consumer[k].signature = hist.freedTags[c]
              /\ \A p \in Pointers :
                    c \in hist.attached[p] => consumer[k].text = allocs[p].text

\* C3 witness: the unload event of a freed class was delivered while another
\* class object is still alive and tagged.
C3_Witness ==
    \E c, d \in Classes :
        /\ c # d
        /\ objState[c] = "freed"
        /\ UnloadEvents(c) # {}
        /\ objState[d] = "live"
        /\ tag[d] # NOT_TAGGED

\* C4 as stated: when classTrack_initialize returns, every class of the array
\* whose status then has the PREPARED or the ARRAY bit is tagged with its
\* signature.
C4_TaggedAtReturn_Original ==
    [][(pc[MainThread] = "loop" /\ pc'[MainThread] = "done") =>
        \A c \in Range(classes) :
            (\/ BitAnd(status'[c], JVMTI_CLASS_STATUS_PREPARED) # 0
             \/ BitAnd(status'[c], JVMTI_CLASS_STATUS_ARRAY) # 0)
            => /\ tag'[c] # NOT_TAGGED
               /\ allocs'[tag'[c]].text = SignatureText(c)]_vars

\* C4, amended: when classTrack_initialize returns, every class of the array
\* whose status had the PREPARED or the ARRAY bit when the loop read it
\* (classStatus, line 171) is tagged with its signature.
C4_TaggedAtReturn ==
    [][(pc[MainThread] = "loop" /\ pc'[MainThread] = "done") =>
        \A c \in Range(classes) :
            (\/ BitAnd(hist'.seenStatus[c], JVMTI_CLASS_STATUS_PREPARED) # 0
             \/ BitAnd(hist'.seenStatus[c], JVMTI_CLASS_STATUS_ARRAY) # 0)
            => /\ tag'[c] # NOT_TAGGED
               /\ allocs'[tag'[c]].text = SignatureText(c)]_vars

\* C4 witness: classTrack_initialize has returned after tagging an array
\* class and a prepared class of the array.
C4_Witness ==
    /\ hist.returned
    /\ \E c, d \in Range(classes) :
          /\ hist.seenStatus[c] = JVMTI_CLASS_STATUS_ARRAY
          /\ BitAnd(hist.seenStatus[d], JVMTI_CLASS_STATUS_PREPARED) # 0
          /\ tag[c] # NOT_TAGGED
          /\ tag[d] # NOT_TAGGED
\* The steps of classTrack_initialize and setupEvents that can fail.
SetupSteps == {"getSpecialJvmti", "AddCapabilities", "SetEventCallbacks",
               "EnableObjectFree", "EnableClassPrepare", "allLoadedClasses"}

\* C5: a failed setup step leaves the process in the fatal state without
\* classTrack_initialize having returned; classTrack_initialize has returned
\* only if no setup step failed, with the handle, the capability, the
\* callbacks and both notification modes in place.
C5_SetupFailureFatal ==
    /\ (hist.failed \cap SetupSteps # {}) => (fatal /\ ~hist.returned)
    /\ (trackingEnv = "NULL" /\ pc[MainThread] # "getSpecialJvmti") => fatal
    /\ hist.returned =>
          /\ hist.failed \cap SetupSteps = {}
          /\ trackingEnv # "NULL"
          /\ hasCaps
          /\ callbacks = [env |-> trackingEnv,
                          events |-> {"ObjectFree", "ClassPrepare"}]
          /\ enabled = {"ObjectFree", "ClassPrepare"}

\* C5 witness: enabling CLASS_PREPARE failed after the earlier steps had
\* succeeded, and the process is in the fatal state.
C5_Witness ==
    /\ fatal
    /\ "EnableClassPrepare" \in hist.failed
    /\ enabled = {"ObjectFree"}

\* C6 as stated: no class object is passed to addPreparedClass both by the
\* loop of classTrack_initialize and by cbTrackingClassPrepare.
C6_Exclusive_Original ==
    \A c \in Classes : ~(hist.calls[c].boot > 0 /\ hist.calls[c].prepare > 0)

\* C6, amended: each path passes a class object to addPreparedClass at most
\* once, and a class object passed by both paths was prepared after
\* CLASS_PREPARE was enabled (its event was posted) and before the loop read
\* its status (the loop saw the PREPARED bit); for every other class object
\* the two paths are mutually exclusive.
C6_ExclusiveOutsideWindow ==
    \A c \in Classes :
        /\ hist.calls[c].boot <= 1
        /\ hist.calls[c].prepare <= 1
        /\ (hist.calls[c].boot > 0 /\ hist.calls[c].prepare > 0) =>
              /\ c \in hist.evFired
              /\ c \in Range(classes)
              /\ BitAnd(hist.seenStatus[c], JVMTI_CLASS_STATUS_PREPARED) # 0

\* C6 witness: one class went through both paths, another one only through
\* the loop or only through the callback.
C6_Witness ==
    \E c, d \in Classes :
        /\ hist.calls[c].boot = 1 /\ hist.calls[c].prepare = 1
        /\ hist.calls[d].boot + hist.calls[d].prepare = 1

\* C7: with assertOn, once the loop and the callback have both finished
\* addPreparedClass on the same class object, SetTag has stored exactly one
\* of the two signatures, once, and the other one was released as a
\* duplicate.
C7_BenignRace ==
    assertOn =>
        \A c \in Classes :
            (/\ ~fatal
             /\ hist.calls[c].boot = 1 /\ hist.calls[c].prepare = 1
             /\ \A t \in Threads : klass[t] # c)
            => /\ hist.setCount[c] = 1
               /\ \E p, q \in Allocated :
                     /\ p # q
                     /\ allocs[p].klass = c /\ allocs[q].klass = c
                     /\ hist.attached[p] = {c} /\ allocs[p].released = 0
                     /\ hist.attached[q] = {}
                     /\ allocs[q].released = 1 /\ allocs[q].why = "duplicate"
                     /\ objState[c] = "live" => tag[c] = p

\* C8: every string handed to the event handler was allocated (by the one
\* addPreparedClass call that computed it for its class), was stored in the
\* Tag Slot of that one class object and of no other, and was not released.
C8_ForwardedIdentity ==
    \A k \in 1..Len(consumer) :
        LET p == consumer[k].signature
        IN  /\ p \in Allocated
            /\ hist.attached[p] = {allocs[p].klass}
            /\ allocs[p].released = 0
            /\ consumer[k].text = SignatureText(allocs[p].klass)

\* C8 witness: a string was forwarded for a class whose second signature was
\* released as a duplicate.
C8_Witness ==
    \E k \in 1..Len(consumer), q \in Allocated :
        /\ allocs[q].klass = allocs[consumer[k].signature].klass
        /\ allocs[q].why = "duplicate"

\* C9: a step of the class-prepared handler on class object C either takes
\* the slot of C from NOT_TAGGED to a signature of C or leaves the tag store
\* unchanged; the slots of the other class objects stay as they are.
C9_PrepareEffect ==
    [][\A t \in CbThreads :
          (pc[t] \in {"cbTrackingClassPrepare", "GetTag", "SetTag"}
           /\ (pc'[t] # pc[t] \/ fatal'))
          => \/ tag' = tag
             \/ /\ tag[klass[t]] = NOT_TAGGED
                /\ tag'[klass[t]] # NOT_TAGGED
                /\ allocs[tag'[klass[t]]].klass = klass[t]
                /\ \A d \in Classes \ {klass[t]} : tag'[d] = tag[d]]_vars

\* C10: the step of cbTrackingObjectFree hands the tag it received and the
\* JNIEnv of its thread to the event handler, releases nothing, calls neither
\* GetTag nor SetTag and leaves every Tag Slot as it is.
C10_ObjectFreeFrame ==
    [][(consumer' # consumer \/ (pendingFree' \subseteq pendingFree /\ pendingFree' # pendingFree)) =>
        \E t \in CbThreads, tg \in pendingFree :
            /\ pc[t] = "idle"
            /\ pendingFree' = pendingFree \ {tg}
            /\ consumer' = Append(consumer, [signature |-> tg,
                                             text      |-> allocs[tg].text,
                                             env       |-> getEnv(t)])
            /\ allocs' = allocs
            /\ tag' = tag
            /\ hist'.getCalls = hist.getCalls
            /\ hist'.setCalls = hist.setCalls]_vars

\* C10 witness: an unload event was handed over while another class object is
\* alive and tagged and GetTag and SetTag calls had been made.
C10_Witness ==
    /\ Len(consumer) > 0
    /\ hist.setCalls > 0
    /\ hist.getCalls > 0
    /\ \E d \in Classes : objState[d] = "live" /\ tag[d] # NOT_TAGGED
\* C11: with assertOn, the step of addPreparedClass that finds its class
\* object already tagged with a textually equal signature makes no SetTag,
\* leaves every Tag Slot as it is, releases the freshly computed string once
\* and no other string, and returns without EXIT_ERROR.
C11_DuplicateReleased ==
    [][\A t \in Threads :
          (/\ pc[t] = "GetTag"
           /\ pc'[t] # "GetTag"
           /\ tag[klass[t]] # NOT_TAGGED
           /\ allocs[jlong_to_ptr(tag[klass[t]])].text = allocs[signature[t]].text)
          => /\ assertOn
             /\ tag' = tag
             /\ hist'.setCalls = hist.setCalls
             /\ allocs' = [allocs EXCEPT ![signature[t]].released = 1,
                                         ![signature[t]].why = "duplicate"]
             /\ signature[t] # jlong_to_ptr(tag[klass[t]])
             /\ pc'[t] = ReturnPc(t)
             /\ ~fatal'
             /\ assertFailed' = assertFailed]_vars

\* C11 witness: with assertOn a freshly computed string was released as a
\* duplicate while the class object keeps the string stored before.
C11_Witness ==
    /\ assertOn
    /\ \E p, q \in Allocated :
          /\ p # q
          /\ allocs[q].klass = allocs[p].klass
          /\ allocs[q].why = "duplicate" /\ allocs[q].released = 1
          /\ tag[allocs[p].klass] = p
          /\ allocs[p].released = 0
\* The step of thread t is the already-tagged path of addPreparedClass, and
\* the stored string differs textually from the fresh one.
MismatchObserved(t) ==
    /\ pc[t] = "GetTag"
    /\ pc'[t] # "GetTag"
    /\ tag[klass[t]] # NOT_TAGGED
    /\ allocs[jlong_to_ptr(tag[klass[t]])].text # allocs[signature[t]].text

\* C12: a stored signature that differs textually from the fresh one is
\* detected exactly when assertOn is set: the step of addPreparedClass that
\* meets it raises the assertion failure and leaves the Tag Slot as it is;
\* an assertion failure is raised by no other step, and never when assertOn
\* is off.
C12_MismatchAsserted ==
    [][/\ \A t \in Threads :
             MismatchObserved(t)
             => /\ assertOn
                /\ assertFailed'
                /\ tag' = tag
                /\ hist'.setCalls = hist.setCalls
       /\ (assertFailed' /\ ~assertFailed)
             => assertOn /\ \E t \in Threads : MismatchObserved(t)
       /\ ~assertOn => ~assertFailed']_vars

\* C12 witness: with assertOn the assertion failure was raised for a class
\* object that still holds its first string, the differing fresh string
\* having been released.
C12_Witness ==
    /\ assertOn
    /\ assertFailed
    /\ \E p, q \in Allocated :
          /\ allocs[q].klass = allocs[p].klass
          /\ allocs[q].text # allocs[p].text
          /\ allocs[q].why = "duplicate"
          /\ tag[allocs[p].klass] = p

\* With assertOn off the differing string overwrote the stored one and no
\* assertion failure was raised.
MismatchOverwrittenSilently ==
    /\ ~assertOn
    /\ ~assertFailed
    /\ \E p, q \in Allocated :
          /\ allocs[q].klass = allocs[p].klass
          /\ allocs[q].text # allocs[p].text
          /\ hist.attached[p] # {}
          /\ tag[allocs[p].klass] = q
\* C13: when SetTag fails, the same step of addPreparedClass releases the
\* fresh signature, for the first and only time, and reaches EXIT_ERROR; the
\* string was never handed to eventHandler_synthesizeUnloadEvent, and no Tag
\* Slot changes.
C13_SetTagFailure ==
    [][("SetTag" \in hist'.failed /\ "SetTag" \notin hist.failed)
       => \E t \in Threads :
             /\ pc[t] = "SetTag"
             /\ allocs[signature[t]].released = 0
             /\ allocs' = [allocs EXCEPT ![signature[t]].released = 1,
                                         ![signature[t]].why = "SetTag"]
             /\ Forwards(signature[t]) = 0
             /\ hist.attached[signature[t]] = {}
             /\ consumer' = consumer
             /\ tag' = tag
             /\ fatal']_vars

\* C13 witness: SetTag failed, the process has exited, and the string of the
\* failed call is released once, held by no Tag Slot and never forwarded.
C13_Witness ==
    /\ fatal
    /\ "SetTag" \in hist.failed
    /\ \E t \in Threads :
          /\ pc[t] = "SetTag"
          /\ allocs[signature[t]].released = 1
          /\ allocs[signature[t]].why = "SetTag"
          /\ Forwards(signature[t]) = 0
          /\ \A c \in Classes : tag[c] # signature[t]
\* The step is the failure of the named JVMTI call of addPreparedClass.
FailsAt(step) == step \in hist'.failed /\ step \notin hist.failed

\* C14: when classSignature fails, addPreparedClass reaches EXIT_ERROR with
\* no GetTag and no SetTag made by that step, no string allocated or
\* released, and every Tag Slot unchanged; when GetTag fails on the assertOn
\* path, the step reaches EXIT_ERROR with no SetTag and every Tag Slot
\* unchanged.
C14_EarlyFailure ==
    [][/\ FailsAt("classSignature")
          => /\ fatal'
             /\ tag' = tag
             /\ allocs' = allocs
             /\ hist'.getCalls = hist.getCalls
             /\ hist'.setCalls = hist.setCalls
       /\ FailsAt("GetTag")
          => /\ assertOn
             /\ fatal'
             /\ tag' = tag
             /\ allocs' = allocs
             /\ hist'.setCalls = hist.setCalls]_vars

\* C14 witness: classSignature failed in a call of addPreparedClass made
\* while another class object was tagged; the process has exited and the
\* class of the failed call has no string.
C14_Witness ==
    /\ fatal
    /\ "classSignature" \in hist.failed
    /\ \E t \in Threads :
          /\ klass[t] # 0
          /\ tag[klass[t]] = NOT_TAGGED
          /\ \A p \in Allocated : allocs[p].klass # klass[t]
          /\ \E c \in Classes : tag[c] # NOT_TAGGED

\* GetTag failed on the assertOn path while the class object of the call was
\* already tagged; the process has exited and the slot keeps its string.
GetTagFailed ==
    /\ fatal
    /\ assertOn
    /\ "GetTag" \in hist.failed
    /\ \E t \in Threads :
          /\ pc[t] = "GetTag"
          /\ tag[klass[t]] # NOT_TAGGED
          /\ tag[klass[t]] # signature[t]
\* The status has the PREPARED bit or the ARRAY bit.
PreparedOrArray(st) ==
    \/ BitAnd(st, JVMTI_CLASS_STATUS_PREPARED) # 0
    \/ BitAnd(st, JVMTI_CLASS_STATUS_ARRAY) # 0

\* C15: the loop of classTrack_initialize calls addPreparedClass for exactly
\* the classes of the array whose status, as read in that round, has the
\* PREPARED or the ARRAY bit, one class per round in the order of the array:
\* a round on a class with neither bit makes no call and changes no Tag
\* Slot, and when the call of a round returns the class is tagged with its
\* signature.
C15_EnumerationFilter ==
    [][/\ \A c \in Classes :
             hist'.calls[c].boot # hist.calls[c].boot
             => /\ pc[MainThread] = "loop"
                /\ i < Len(classes)
                /\ c = classes[i + 1]
                /\ PreparedOrArray(status[c])
                /\ hist.calls[c].boot = 0
                /\ hist'.calls[c].boot = 1
                /\ i' = i
       /\ (pc[MainThread] = "loop" /\ i' = i + 1)
             => /\ ~PreparedOrArray(status[classes[i + 1]])
                /\ hist'.calls = hist.calls
                /\ tag' = tag
                /\ allocs' = allocs
       /\ (pc[MainThread] \in {"GetTag", "SetTag"} /\ i' = i + 1)
             => /\ hist.calls[classes[i + 1]].boot = 1
                /\ tag'[classes[i + 1]] # NOT_TAGGED
                /\ allocs'[jlong_to_ptr(tag'[classes[i + 1]])].text
                      = SignatureText(classes[i + 1])
       /\ i' # i => i' = i + 1 /\ i < Len(classes)]_vars

\* C15 witness: classTrack_initialize has returned from an array in which
\* one class had neither bit, was passed over and has no string of the
\* loop, and another was tagged by the loop.
C15_Witness ==
    /\ hist.returned
    /\ \E c, d \in Range(classes) :
          /\ ~PreparedOrArray(hist.seenStatus[c])
          /\ hist.calls[c].boot = 0
          /\ \A p \in Allocated : allocs[p].klass = c => allocs[p].by # "boot"
          /\ hist.calls[d].boot = 1
          /\ tag[d] # NOT_TAGGED
          /\ allocs[jlong_to_ptr(tag[d])].by = "boot"
\* Exactly one call of addPreparedClass was made for class c, and it has
\* returned.
OnlyCallReturned(c) ==
    /\ hist.calls[c].boot + hist.calls[c].prepare = 1
    /\ \A t \in Threads : klass[t] # c
    /\ objState[c] = "live"

\* C16: calls of addPreparedClass that run concurrently on different class
\* objects do not disturb each other.  Every tagged Tag Slot holds a string
\* computed for its own class, with that class's signature; a class whose
\* only call has returned holds the one string computed for it, unreleased,
\* as after a call run alone, whatever other threads did meanwhile.
C16_NoInterference ==
    \A c \in Classes :
       /\ tag[c] # NOT_TAGGED
          => /\ allocs[jlong_to_ptr(tag[c])].klass = c
             /\ allocs[jlong_to_ptr(tag[c])].text = SignatureText(c)
       /\ OnlyCallReturned(c)
          => /\ tag[c] # NOT_TAGGED
             /\ allocs[jlong_to_ptr(tag[c])].released = 0
             /\ \A p \in Allocated : allocs[p].klass = c => p = jlong_to_ptr(tag[c])
             /\ hist.setCount[c] = 1

\* C16 witness: a callback thread other than the first, which the VM uses
\* only while the first is inside its callback, is between classSignature
\* and SetTag for one class while the class of the first thread's callback
\* has meanwhile been tagged with its own signature.
C16_Witness ==
    \E t \in CbThreads \ {1} : \E c \in Classes :
       /\ pc[t] = "SetTag"
       /\ klass[t] # c
       /\ tag[klass[t]] = NOT_TAGGED
       /\ hist.calls[klass[t]] = [boot |-> 0, prepare |-> 1]
       /\ hist.calls[c] = [boot |-> 0, prepare |-> 1]
       /\ tag[c] # NOT_TAGGED
       /\ allocs[jlong_to_ptr(tag[c])].klass = c
\* Class c is loaded and has the PREPARED bit.
LivePrepared(c) ==
    /\ objState[c] = "live"
    /\ BitAnd(status[c], JVMTI_CLASS_STATUS_PREPARED) # 0

\* The snapshot of allLoadedClasses has been taken.
SnapshotTaken == pc[MainThread] \in {"loop", "GetTag", "SetTag", "done"}

\* Class c is prepared and waits to be tagged: nothing has failed fatally
\* and its Tag Slot is empty.
Waiting(c) ==
    /\ BitAnd(status[c], JVMTI_CLASS_STATUS_PREPARED) # 0
    /\ tag[c] = NOT_TAGGED
    /\ ~fatal

\* C17 as stated: every class that is prepared, at whatever moment, is
\* eventually tagged, unless a step fails fatally.  A class is tagged only
\* while loaded, so the claim fails for a class that waits while loaded and
\* for one that was unloaded waiting.
C17_NoneMissed_Original ==
    \A c \in Classes : []<>(~Waiting(c) \/ hist.setCount[c] > 0)

\* C17, amended: every prepared class is eventually tagged, unless a step
\* fails fatally or the class is unloaded first; and a prepared class is
\* unloaded untagged only before allLoadedClasses has taken its snapshot, so
\* no class that is in the snapshot or is prepared after it is missed.
C17_NoneMissed ==
    /\ \A c \in Classes : []<>~(Waiting(c) /\ objState[c] = "live")
    /\ [][\A c \in Classes :
             (LivePrepared(c) /\ tag[c] = NOT_TAGGED /\ objState'[c] = "freed")
             => ~SnapshotTaken]_vars

\* C17 witness: classTrack_initialize has returned; a class prepared before
\* CLASS_PREPARE was enabled has been tagged by the loop, and a class
\* prepared after the snapshot has been tagged by the callback.
C17_Witness ==
    /\ hist.returned
    /\ \E c, d \in Classes :
          /\ LivePrepared(c) /\ LivePrepared(d)
          /\ c \notin hist.evFired
          /\ hist.calls[c] = [boot |-> 1, prepare |-> 0]
          /\ tag[c] # NOT_TAGGED
          /\ d \notin Range(classes)
          /\ hist.calls[d] = [boot |-> 0, prepare |-> 1]
          /\ tag[d] # NOT_TAGGED
\* The step is an invocation of cbTrackingObjectFree or of
\* cbTrackingClassPrepare by the VM.
CallbackInvoked ==
    \/ consumer' # consumer
    \/ \E t \in CbThreads : pc[t] = "cbTrackingClassPrepare" /\ pc'[t] # pc[t]

\* C18: jvmti_env == trackingEnv holds in every invocation of the two
\* callbacks, and no assertion fails: the callbacks are registered, and the
\* events enabled, only on trackingEnv and only once it is set; a callback
\* that is due or running implies trackingEnv is set; and trackingEnv is
\* assigned once, before any callback is registered.
C18_EnvAsserted ==
    /\ [](/\ ~assertFailed
          /\ callbacks.events # {}
                => callbacks.env = trackingEnv /\ trackingEnv # "NULL"
          /\ enabled # {} => callbacks.events # {}
          /\ (pendingFree # {} \/ \E t \in CbThreads : pc[t] # "idle")
                => enabled # {})
    /\ [][/\ CallbackInvoked
             => callbacks.env = trackingEnv /\ trackingEnv # "NULL"
          /\ trackingEnv' # trackingEnv
             => /\ trackingEnv = "NULL"
                /\ callbacks.events = {}
                /\ enabled = {}]_vars

\* C18 witness: with assertOn both callbacks have run, on the environment
\* trackingEnv was set to, and no assertion has failed.
C18_Witness ==
    /\ assertOn
    /\ ~assertFailed
    /\ trackingEnv = "ENV"
    /\ callbacks.env = "ENV"
    /\ Len(consumer) > 0
    /\ \E c \in Classes : hist.calls[c].prepare > 0
\* The number of calls of addPreparedClass made for class c: what the VM
\* events and the bootstrap ask for, whatever assertOn is.
CallsMade(c) == hist.calls[c].boot + hist.calls[c].prepare

\* The class object that was freed carrying tag tg.
FreedWith(tg) == CHOOSE c \in Classes : hist.freedTags[c] = tg

\* C19: what is reported does not depend on assertOn.  Whatever assertOn
\* is, the observable state is the same function of the VM events and the
\* calls they caused: a loaded class with no call in progress is tagged
\* exactly when a call was made for it, and then with its signature text; a
\* class object is freed tagged exactly when a call was made for it; and the
\* k-th text passed to eventHandler_synthesizeUnloadEvent is the signature
\* text of the class object whose ObjectFree event it answers.
C19_SameReport ==
    /\ \A c \in Classes :
          /\ (objState[c] = "live" /\ \A t \in Threads : klass[t] # c)
                => (tag[c] # NOT_TAGGED <=> CallsMade(c) > 0)
          /\ tag[c] # NOT_TAGGED
                => allocs[jlong_to_ptr(tag[c])].text = SignatureText(c)
          /\ objState[c] = "freed"
                => (hist.freedTags[c] # NOT_TAGGED <=> CallsMade(c) > 0)
    /\ \A k \in 1..Len(consumer) :
          /\ \E c \in Classes : hist.freedTags[c] = consumer[k].signature
          /\ consumer[k].text = SignatureText(FreedWith(consumer[k].signature))

\* C19 witness: with assertOn a class for which addPreparedClass was called
\* twice, the second call finding it tagged, was freed and its signature text
\* was reported, while another class is loaded and tagged.
C19_Witness ==
    /\ assertOn
    /\ \E c, d \in Classes :
          /\ c # d
          /\ CallsMade(c) = 2
          /\ hist.getCalls >= 2
          /\ objState[c] = "freed"
          /\ \E k \in 1..Len(consumer) :
                /\ consumer[k].signature = hist.freedTags[c]
                /\ consumer[k].text = SignatureText(c)
          /\ objState[d] = "live"
          /\ tag[d] # NOT_TAGGED

\* The same events with assertOn off: both calls set the tag, and the same
\* text is reported.
SameReportOff ==
    /\ ~assertOn
    /\ \E c, d \in Classes :
          /\ c # d
          /\ CallsMade(c) = 2
          /\ hist.setCount[c] = 2
          /\ objState[c] = "freed"
          /\ \E k \in 1..Len(consumer) :
                /\ consumer[k].signature = hist.freedTags[c]
                /\ consumer[k].text = SignatureText(c)
          /\ objState[d] = "live"
          /\ tag[d] # NOT_TAGGED
====
